---- MODULE Spec2Model ----
(***************************************************************************)
(* Control logic of SFTGAN_ACD_Model (codes/models/SFTGAN_ACD_model.py):   *)
(* construction (__init__, print_network) and the training step            *)
(* (optimize_parameters).  Tensors are abstracted to the set of parameter  *)
(* groups their autograd graph reaches; loss values to the index of the    *)
(* call that computed them; learning rates to integer units.               *)
(***************************************************************************)
EXTENDS Integers, Sequences, FiniteSets, TLC

VARIABLES opt, named_parameters, network_txt, phase, self, stdout,
          grads, events, l_g_total, l_d_total, step, nCalls

vars == <<opt, named_parameters, network_txt, phase, self, stdout,
          grads, events, l_g_total, l_d_total, step, nCalls>>

\* ---------------------------------------------------------------- bounds
MaxCalls == 3
MaxSmallStep == 3
MaxOver == 2
MaxRatio == 2
MaxInitIters == 1
MaxLr == 2

\* step > 20000 gate of optimizer_G_other (line 175)
GOtherStart == 20000
\* lr multiplier of optimizer_G_SFT (line 104)
SFTLrFactor == 5

\* ---------------------------------------------------------------- values
\* Python None / a present value
None == <<>>
Some(v) == <<v>>

\* Python truthiness of a configuration number: None and 0 are falsy
Truthy(x) == x # None /\ x[1] # 0

\* parameter names of netG as character sequences, so that `'SFT' in k`
\* is a real substring test
SFT == <<"S", "F", "T">>
Cond == <<"C", "o", "n", "d">>
ParamNames ==
    { <<"C", "o", "n", "d", "0">>,
      <<"b", ".", "S", "F", "T", "1">>,
      <<"c", "o", "n", "v">>,
      <<"s", "f", "t", ".", "S", "F">> }

\* Python `sub in s` on str
Contains(sub, s) ==
    \E i \in 0..(Len(s) - Len(sub)) :
        \A j \in 1..Len(sub) : s[i + j] = sub[j]

Weights == {-1, 0, 1}
Criteria == {"l1", "l2", "l3"}
LrSchemes == {"MultiStepLR", "CosineAnnealingLR"}
GanTypes == {"vanilla", "wgan-gp"}
StaleContents == {<<>>, <<"stale">>}

\* the fields __init__ may or may not set; "unset" is an absent attribute
NewSelf ==
    [ exc |-> "",
      cri_pix |-> "unset", l_pix_w |-> None,
      cri_fea |-> "unset", l_fea_w |-> None,
      netF |-> FALSE,
      l_gan_w |-> None,
      D_update_ratio |-> None, D_init_iters |-> None,
      cri_gp |-> FALSE, l_gp_w |-> None,
      optimizers |-> <<>>, schedulers |-> None,
      log_dict |-> None ]

\* ------------------------------------------------------------- __init__
Raise(s, e) == [s EXCEPT !.exc = e]

\* nn.Module instances are truthy, None is falsy
ModuleTruthy(c) == c \notin {"None", "unset"}

\* variant: a zero weight keeps the pixel loss
InitPixelLoss_ge(s) ==
    IF opt.pixel_weight >= 0
    THEN IF opt.pixel_criterion = "l1"
         THEN [s EXCEPT !.cri_pix = "L1Loss", !.l_pix_w = Some(opt.pixel_weight)]
         ELSE IF opt.pixel_criterion = "l2"
         THEN [s EXCEPT !.cri_pix = "MSELoss", !.l_pix_w = Some(opt.pixel_weight)]
         ELSE Raise(s, "NotImplementedError")
    ELSE [s EXCEPT !.cri_pix = "None"]

\* lines 38-49: G pixel loss
InitPixelLoss(s) ==
    IF opt.pixel_weight > 0
    THEN IF opt.pixel_criterion = "l1"
         THEN [s EXCEPT !.cri_pix = "L1Loss", !.l_pix_w = Some(opt.pixel_weight)]
         ELSE IF opt.pixel_criterion = "l2"
         THEN [s EXCEPT !.cri_pix = "MSELoss", !.l_pix_w = Some(opt.pixel_weight)]
         ELSE Raise(s, "NotImplementedError")
    ELSE [s EXCEPT !.cri_pix = "None"]

\* variant: an unrecognised feature criterion falls back to L1
InitFeatureLoss_fallback(s) ==
    IF opt.feature_weight > 0
    THEN IF opt.feature_criterion = "l2"
         THEN [s EXCEPT !.cri_fea = "MSELoss", !.l_fea_w = Some(opt.feature_weight),
                        !.netF = TRUE]
         ELSE [s EXCEPT !.cri_fea = "L1Loss", !.l_fea_w = Some(opt.feature_weight),
                        !.netF = TRUE]
    ELSE [s EXCEPT !.cri_fea = "None"]

\* lines 52-65: G feature loss and the perceptual network
InitFeatureLoss(s) ==
    IF opt.feature_weight > 0
    THEN IF opt.feature_criterion = "l1"
         THEN [s EXCEPT !.cri_fea = "L1Loss", !.l_fea_w = Some(opt.feature_weight),
                        !.netF = TRUE]
         ELSE IF opt.feature_criterion = "l2"
         THEN [s EXCEPT !.cri_fea = "MSELoss", !.l_fea_w = Some(opt.feature_weight),
                        !.netF = TRUE]
         ELSE Raise(s, "NotImplementedError")
    ELSE [s EXCEPT !.cri_fea = "None"]

\* lines 70-71
D_update_ratio(v) == IF Truthy(v) THEN v[1] ELSE 1
D_init_iters(v) == IF Truthy(v) THEN v[1] ELSE 0

\* lines 68-77: gan loss, update schedule, gradient penalty
InitGanLoss(s) ==
    LET s1 == [s EXCEPT !.l_gan_w = Some(opt.gan_weight),
                        !.D_update_ratio = Some(D_update_ratio(opt.D_update_ratio)),
                        !.D_init_iters = Some(D_init_iters(opt.D_init_iters))]
    IN  IF opt.gan_type = "wgan-gp"
        THEN [s1 EXCEPT !.cri_gp = TRUE, !.l_gp_w = Some(opt.gp_weigth)]
        ELSE s1

\* variant: the 'Cond' test is dropped
IsSFTParam_onlySFT(k) == Contains(SFT, k)

\* line 100: which generator parameters go to optimizer_G_SFT
IsSFTParam(k) == Contains(SFT, k) \/ Contains(Cond, k)

\* lines 97-103
optim_params_SFT == {k \in named_parameters : IsSFTParam(k)}
optim_params_other == {k \in named_parameters : ~IsSFTParam(k)}

\* lines 104-107, 112-113: torch.optim.Adam(params, lr=...)
optimizer_G_SFT ==
    [name |-> "optimizer_G_SFT", params |-> optim_params_SFT,
     lr |-> opt.lr_G * SFTLrFactor]
optimizer_G_other ==
    [name |-> "optimizer_G_other", params |-> optim_params_other,
     lr |-> opt.lr_G]
optimizer_D ==
    [name |-> "optimizer_D", params |-> {<<"n", "e", "t", "D">>},
     lr |-> opt.lr_D]

\* lines 94-114
InitOptimizers(s) ==
    [s EXCEPT !.optimizers = <<optimizer_G_SFT, optimizer_G_other, optimizer_D>>]

\* lines 117-123
InitSchedulers(s) ==
    IF opt.lr_scheme = "MultiStepLR"
    THEN [s EXCEPT !.schedulers =
            Some([i \in 1..Len(s.optimizers) |->
                    [type |-> "MultiStepLR", optimizer |-> s.optimizers[i].name]])]
    ELSE Raise([s EXCEPT !.schedulers = Some(<<>>)], "NotImplementedError")

\* line 125: an empty OrderedDict (a function with no keys)
InitLog(s) == [s EXCEPT !.log_dict = Some(<<>>)]

\* lines 36-125: the training-mode block of __init__; a raised exception
\* skips every later statement
InitTrain(s) ==
    LET s1 == InitPixelLoss(s)
        s2 == IF s1.exc # "" THEN s1 ELSE InitFeatureLoss(s1)
        s3 == IF s2.exc # "" THEN s2 ELSE InitOptimizers(InitGanLoss(s2))
        s4 == InitSchedulers(s3)
    IN  IF s3.exc # "" THEN s3
        ELSE IF s4.exc # "" THEN s4 ELSE InitLog(s4)

\* lines 18-125 up to the call of print_network
InitFields == IF opt.is_train THEN InitTrain(NewSelf) ELSE NewSelf

\* ------------------------------------------------------- print_network
\* open(path, mode): 'w' truncates, 'a' keeps the content
Open(file, mode) == IF mode = "w" THEN <<>> ELSE file

\* variant: the Generator section is appended
GeneratorMode_append == "a"

\* line 248: the mode the Generator section is opened with
GeneratorMode == "w"

\* lines 241-263: the content of network.txt after print_network
PrintNetwork(file, s) ==
    IF opt.is_train
    THEN LET f1 == Append(Open(file, GeneratorMode), "Generator")
             f2 == Append(Open(f1, "a"), "Discriminator")
         IN  IF ModuleTruthy(s.cri_fea)
             THEN Append(Open(f2, "a"), "Perceptual Network")
             ELSE f2
    ELSE file

\* what __init__ and print_network print (lines 48, 62, 127-129, 244-260)
InitStdout(s) ==
    (IF opt.is_train /\ s.cri_pix = "None" THEN <<"Remove pixel loss.">> ELSE <<>>)
    \o (IF opt.is_train /\ s.cri_fea = "None" THEN <<"Remove feature loss.">> ELSE <<>>)
    \o (IF s.exc = ""
        THEN <<"Model initialized", "parameters in G">>
             \o (IF opt.is_train THEN <<"parameters in D">> ELSE <<>>)
             \o (IF opt.is_train /\ ModuleTruthy(s.cri_fea)
                 THEN <<"parameters in F">> ELSE <<>>)
        ELSE <<>>)

\* SFTGAN_ACD_Model(opt)
Construct ==
    /\ phase = "new"
    /\ LET s == InitFields
       IN  /\ self' = s
           /\ phase' = IF s.exc = "" THEN "initialized" ELSE "raised"
           /\ network_txt' = IF s.exc = "" THEN PrintNetwork(network_txt, s)
                             ELSE network_txt
           /\ stdout' = InitStdout(s)
    /\ UNCHANGED <<opt, named_parameters, grads, events, l_g_total, l_d_total,
                   step, nCalls>>

\* ------------------------------------------------- optimize_parameters
\* A tensor is the set of parameter groups its autograd graph reaches.
Groups == {"G_SFT", "G_other", "D"}
netG == {"G_SFT", "G_other"}
netD(x) == x \cup {"D"}
Detach(x) == {}
var_H == {}

\* the state threaded through one call of optimize_parameters
Frame(n) ==
    [ n |-> n, grads |-> grads, events |-> <<>>, fake_H |-> {},
      l_g_total |-> <<>>, l_d_total |-> <<>>, log |-> self.log_dict[1] ]

Ev(op, g) == [op |-> op, grad |-> g]
Emit(m, op) == [m EXCEPT !.events = Append(@, Ev(op, {}))]

Term(name, w, graph) == [name |-> name, w |-> w, graph |-> graph]

\* optimizer.zero_grad(): the event records the gradients it discards
ZeroGrad(m, group, op) ==
    [m EXCEPT !.grads[group] = {},
              !.events = Append(@, Ev(op, m.grads[group]))]

\* loss.backward(): every parameter group reached by a term accumulates
Backward(m, terms, tag, op) ==
    Emit([m EXCEPT !.grads =
            [p \in Groups |->
                IF \E i \in 1..Len(terms) : p \in terms[i].graph
                THEN m.grads[p] \cup {<<tag, m.n>>}
                ELSE m.grads[p]]], op)

\* optimizer.step(): the event records the gradients it consumes
Step(m, group, op) ==
    [m EXCEPT !.events = Append(@, Ev(op, m.grads[group]))]

\* variants: the warm-up bound is inclusive
GenGate_ge(st) == st % self.D_update_ratio[1] = 0 /\ st >= self.D_init_iters[1]
LogGate_ge(st) == st % self.D_update_ratio[1] = 0 /\ st >= self.D_init_iters[1]

\* line 157: step % D_update_ratio == 0 and step > D_init_iters
GenGate(st) == st % self.D_update_ratio[1] = 0 /\ st > self.D_init_iters[1]
\* line 207: the same test, repeated for the log
LogGate(st) == st % self.D_update_ratio[1] = 0 /\ st > self.D_init_iters[1]

\* variant: the secondary group is stepped inside the generator gate
GOtherGate_nested(st) == st > GOtherStart /\ GenGate(st)

\* line 175
GOtherGate(st) == st > GOtherStart

\* lines 152-154
ZeroGradG(m) ==
    LET m1 == ZeroGrad(m, "G_SFT", "optimizer_G_SFT.zero_grad")
        m2 == ZeroGrad(m1, "G_other", "optimizer_G_other.zero_grad")
    IN  Emit([m2 EXCEPT !.fake_H = netG], "netG")

\* lines 158-160
PixelTerm(m) ==
    IF ModuleTruthy(self.cri_pix)
    THEN Emit([m EXCEPT !.l_g_total =
                 Append(@, Term("l_g_pix", self.l_pix_w[1], m.fake_H))], "l_g_pix")
    ELSE m

\* lines 161-165 (netF passes the graph of its input through)
FeatureTerm(m) ==
    IF ModuleTruthy(self.cri_fea)
    THEN Emit([m EXCEPT !.l_g_total =
                 Append(@, Term("l_g_fea", self.l_fea_w[1], m.fake_H))], "l_g_fea")
    ELSE m

\* lines 167-171
GanClsTerms(m) ==
    LET pred_g_fake == netD(m.fake_H)
        cls_g_fake == netD(m.fake_H)
        m1 == Emit([m EXCEPT !.l_g_total =
                      Append(@, Term("l_g_gan", self.l_gan_w[1], pred_g_fake))],
                   "l_g_gan")
    IN  Emit([m1 EXCEPT !.l_g_total =
                Append(@, Term("l_g_cls", self.l_gan_w[1], cls_g_fake))], "l_g_cls")

\* lines 157-174
GeneratorUpdate(m, st) ==
    IF GenGate(st)
    THEN LET m1 == GanClsTerms(FeatureTerm(PixelTerm(m)))
             m2 == Backward(m1, m1.l_g_total, "l_g_total", "l_g_total.backward")
         IN  Step(m2, "G_SFT", "optimizer_G_SFT.step")
    ELSE m

\* lines 175-176
OtherUpdate(m, st) ==
    IF GOtherGate(st) THEN Step(m, "G_other", "optimizer_G_other.step") ELSE m

\* variant: fake_H is passed to netD without detach()
DFakeInput_attached(m) == m.fake_H

\* line 186: the fake batch the discriminator is trained on
DFakeInput(m) == Detach(m.fake_H)

\* line 197: the interpolation between fake and real for the penalty
Interp(m) == Detach(m.fake_H \cup var_H)

\* lines 182-190
DiscriminatorTerms(m) ==
    LET pred_d_real == netD(var_H)
        pred_d_fake == netD(DFakeInput(m))
        m1 == Emit(m, "l_d_real")
        m2 == Emit(m1, "l_d_cls_real")
        m3 == Emit(m2, "l_d_fake")
        m4 == Emit(m3, "l_d_cls_fake")
    IN  [m4 EXCEPT !.l_d_total =
            << Term("l_d_real", 1, pred_d_real),
               Term("l_d_cls_real", 1, pred_d_real),
               Term("l_d_fake", 1, pred_d_fake),
               Term("l_d_cls_fake", 1, pred_d_fake) >>]

\* lines 192, 219
UseGP == opt.gan_type = "wgan-gp"

\* variant: the penalty is computed but not added to l_d_total
GradientPenalty_dropped(m) ==
    IF UseGP THEN Emit(m, "l_d_gp") ELSE m

\* lines 192-201
GradientPenalty(m) ==
    IF UseGP
    THEN LET interp == Interp(m)
             interp_crit == netD(interp)
         IN  Emit([m EXCEPT !.l_d_total =
                     Append(@, Term("l_d_gp", self.l_gp_w[1], interp \cup interp_crit))],
                  "l_d_gp")
    ELSE m

\* line 179
ZeroGradD(m) == ZeroGrad(m, "D", "optimizer_D.zero_grad")

\* lines 179-204
DiscriminatorUpdate(m) ==
    LET m1 == GradientPenalty(DiscriminatorTerms(ZeroGradD(m)))
        m2 == Backward(m1, m1.l_d_total, "l_d_total", "l_d_total.backward")
    IN  Step(m2, "D", "optimizer_D.step")

\* log_dict[key] = value for every key of keys; a value is the index of the
\* call that computed it
Put(log, keys, n) ==
    [k \in (DOMAIN log) \cup keys |-> IF k \in keys THEN n ELSE log[k]]

\* lines 208-213
GeneratorLogKeys ==
    (IF ModuleTruthy(self.cri_pix) THEN {"l_g_pix"} ELSE {})
    \cup (IF ModuleTruthy(self.cri_fea) THEN {"l_g_fea"} ELSE {})
    \cup {"l_g_gan"}

\* lines 215-223
DiscriminatorLogKeys ==
    {"l_d_real", "l_d_fake", "l_d_cls_real", "l_d_cls_fake", "D_real", "D_fake"}
    \cup (IF UseGP THEN {"l_d_gp"} ELSE {})

\* lines 207-223
SetLog(m, st) ==
    LET l1 == IF LogGate(st) THEN Put(m.log, GeneratorLogKeys, m.n) ELSE m.log
    IN  [m EXCEPT !.log = Put(l1, DiscriminatorLogKeys, m.n)]

\* lines 150-223
Optimize(m, st) ==
    SetLog(DiscriminatorUpdate(OtherUpdate(GeneratorUpdate(ZeroGradG(m), st), st)), st)

StepValues == (0..MaxSmallStep) \cup ((GOtherStart - 1)..(GOtherStart + MaxOver))

\* model.optimize_parameters(step)
OptimizeParameters ==
    /\ phase = "initialized"
    /\ opt.is_train
    /\ nCalls < MaxCalls
    /\ \E st \in StepValues :
         LET m == Optimize(Frame(nCalls + 1), st)
         IN  /\ step' = st
             /\ nCalls' = nCalls + 1
             /\ grads' = m.grads
             /\ events' = m.events
             /\ l_g_total' = m.l_g_total
             /\ l_d_total' = m.l_d_total
             /\ self' = [self EXCEPT !.log_dict = Some(m.log)]
    /\ UNCHANGED <<opt, named_parameters, network_txt, phase, stdout>>

\* line 231
get_current_log == self.log_dict[1]

\* ------------------------------------------------------------- initial
Options(criteria, schemes, ratios, inits, lrs) ==
    [ is_train : BOOLEAN,
      pixel_weight : Weights, pixel_criterion : criteria,
      feature_weight : Weights, feature_criterion : criteria,
      gan_type : GanTypes, gan_weight : {3}, gp_weigth : {7},
      D_update_ratio : ratios, D_init_iters : inits,
      lr_G : lrs, lr_D : {1},
      lr_scheme : schemes ]

InitRest ==
    /\ phase = "new"
    /\ self = NewSelf
    /\ stdout = <<>>
    /\ grads = [g \in {"G_SFT", "G_other", "D"} |-> {}]
    /\ events = <<>>
    /\ l_g_total = <<>>
    /\ l_d_total = <<>>
    /\ step = 0
    /\ nCalls = 0

\* construction over every configuration string and parameter naming
InitCtor ==
    /\ opt \in Options(Criteria, LrSchemes, {None}, {None}, 1..MaxLr)
    /\ named_parameters \in SUBSET ParamNames
    /\ network_txt \in StaleContents
    /\ InitRest

NextCtor == Construct

Ratios == {None} \cup {Some(r) : r \in 0..MaxRatio}
InitIters == {None} \cup {Some(i) : i \in 0..MaxInitIters}

\* training under every update schedule, with recognised configuration strings
Init ==
    /\ opt \in Options({"l1"}, {"MultiStepLR"}, Ratios, InitIters, {1})
    /\ named_parameters = ParamNames
    /\ network_txt = <<>>
    /\ InitRest

Next == Construct \/ OptimizeParameters

Spec == Init /\ [][Next]_vars


SpecCtor == InitCtor /\ [][NextCtor]_vars

\* ---------------------------------------------------------- properties
\* number of times an operation ran in the last call
Count(op) == Cardinality({i \in 1..Len(events) : events[i].op = op})

\* positions of an operation in the last call
At(op) == {i \in 1..Len(events) : events[i].op = op}

\* the schedule as configured: the value, or the default when falsy
ConfiguredRatio ==
    IF opt.D_update_ratio = None \/ opt.D_update_ratio = Some(0)
    THEN 1 ELSE opt.D_update_ratio[1]
ConfiguredInitIters ==
    IF opt.D_init_iters = None \/ opt.D_init_iters = Some(0)
    THEN 0 ELSE opt.D_init_iters[1]
GeneratorDue(st) == st % ConfiguredRatio = 0 /\ st > ConfiguredInitIters

\* name and weight of each term of a loss
Weighted(terms) == [i \in 1..Len(terms) |-> <<terms[i].name, terms[i].w>>]

\* C1: the generator loss is computed, back-propagated and optimizer_G_SFT
\* stepped in a call iff step % D_update_ratio == 0 and step > D_init_iters
\* (ratio defaulting to 1, warm-up to 0); the discriminator backward and
\* optimizer_D.step() run exactly once in every call.
C1_AlternatingSchedule ==
    nCalls > 0 =>
        /\ (l_g_total # <<>>) <=> GeneratorDue(step)
        /\ Count("l_g_total.backward") = (IF GeneratorDue(step) THEN 1 ELSE 0)
        /\ Count("optimizer_G_SFT.step") = (IF GeneratorDue(step) THEN 1 ELSE 0)
        /\ Count("l_d_total.backward") = 1
        /\ Count("optimizer_D.step") = 1

C1_Witness ==
    /\ nCalls > 1
    /\ opt.D_update_ratio = Some(2)
    /\ opt.D_init_iters = Some(1)
    /\ step = 2
    /\ Count("optimizer_G_SFT.step") = 1
    /\ Count("optimizer_D.step") = 1

\* C2: optimizer_G_other.step() runs in no call with step <= 20000 and exactly
\* once in every call with step > 20000, whatever the configuration.
C2_FixedIterationGate ==
    nCalls > 0 =>
        Count("optimizer_G_other.step") = (IF step > 20000 THEN 1 ELSE 0)

C2_Witness ==
    /\ nCalls > 0
    /\ step > 20000
    /\ ~GeneratorDue(step)
    /\ opt.D_init_iters = Some(1)
    /\ Count("optimizer_G_other.step") = 1

\* C3: when the generator gate holds, l_g_total is the pixel term (iff
\* pixel_weight > 0), the feature term (iff feature_weight > 0), and always
\* the adversarial and classification terms weighted by gan_weight; a term
\* whose weight is <= 0 is never computed.
C3_GeneratorLossTerms ==
    (nCalls > 0 /\ GeneratorDue(step)) =>
        /\ Weighted(l_g_total) =
              (IF opt.pixel_weight > 0
               THEN << <<"l_g_pix", opt.pixel_weight>> >> ELSE <<>>)
              \o (IF opt.feature_weight > 0
                  THEN << <<"l_g_fea", opt.feature_weight>> >> ELSE <<>>)
              \o << <<"l_g_gan", opt.gan_weight>>, <<"l_g_cls", opt.gan_weight>> >>
        /\ Count("l_g_pix") = (IF opt.pixel_weight > 0 THEN 1 ELSE 0)
        /\ Count("l_g_fea") = (IF opt.feature_weight > 0 THEN 1 ELSE 0)

C3_Witness ==
    /\ nCalls > 0
    /\ GeneratorDue(step)
    /\ opt.pixel_weight = 0
    /\ opt.feature_weight > 0
    /\ Len(l_g_total) = 3

\* C4: l_d_total is l_d_real + l_d_cls_real + l_d_fake + l_d_cls_fake, plus the
\* gradient penalty weighted by the configured gp weight iff gan_type is
\* 'wgan-gp'; 'l_d_gp' is in the log iff gan_type is 'wgan-gp' and a call ran.
C4_OptionalGradientPenalty ==
    /\ nCalls > 0 =>
         Weighted(l_d_total) =
            << <<"l_d_real", 1>>, <<"l_d_cls_real", 1>>,
               <<"l_d_fake", 1>>, <<"l_d_cls_fake", 1>> >>
            \o (IF opt.gan_type = "wgan-gp"
                THEN << <<"l_d_gp", opt.gp_weigth>> >> ELSE <<>>)
    /\ self.log_dict # None =>
         (("l_d_gp" \in DOMAIN self.log_dict[1])
             <=> (opt.gan_type = "wgan-gp" /\ nCalls > 0))
    /\ (nCalls > 0 /\ opt.gan_type = "wgan-gp") => self.log_dict[1]["l_d_gp"] = nCalls

C4_Witness ==
    /\ nCalls > 1
    /\ opt.gan_type = "wgan-gp"
    /\ Len(l_d_total) = 5
    /\ self.log_dict[1]["l_d_gp"] = nCalls

\* configuration strings the constructor does not recognise
BadPixel == opt.pixel_weight > 0 /\ opt.pixel_criterion \notin {"l1", "l2"}
BadFeature == opt.feature_weight > 0 /\ opt.feature_criterion \notin {"l1", "l2"}
BadScheme == opt.lr_scheme # "MultiStepLR"

\* C5: training-mode construction raises NotImplementedError on an unknown
\* pixel or feature criterion whose weight is > 0 or on an lr_scheme other than
\* 'MultiStepLR', and then never reaches print_network nor creates log_dict;
\* a criterion whose weight is <= 0, or any string outside training mode, is
\* not examined and raises nothing.
C5_UnrecognizedStringsRaise ==
    phase # "new" =>
        IF opt.is_train /\ (BadPixel \/ BadFeature \/ BadScheme)
        THEN /\ phase = "raised"
             /\ self.exc = "NotImplementedError"
             /\ self.log_dict = None
             /\ \A i \in 1..Len(stdout) :
                   stdout[i] \notin {"Model initialized", "parameters in G"}
             /\ network_txt \in StaleContents
        ELSE /\ phase = "initialized"
             /\ self.exc = ""
             /\ \E i \in 1..Len(stdout) : stdout[i] = "parameters in G"

C5_Witness ==
    /\ phase = "raised"
    /\ opt.pixel_weight <= 0
    /\ opt.pixel_criterion = "l3"
    /\ BadFeature
    /\ ~BadScheme
    /\ network_txt = <<"stale">>

\* the names of ParamNames that contain 'SFT' or 'Cond'
SFTNamed == { <<"C", "o", "n", "d", "0">>, <<"b", ".", "S", "F", "T", "1">> }

\* C6: after training-mode construction every generator parameter is in
\* exactly one of optimizer_G_SFT (name contains 'SFT' or 'Cond') and
\* optimizer_G_other, their learning rates are 5 * lr_G and lr_G, optimizers is
\* [optimizer_G_SFT, optimizer_G_other, optimizer_D], and schedulers holds one
\* MultiStepLR scheduler per optimizer in that order.
C6_ParameterGroups ==
    (phase = "initialized" /\ opt.is_train) =>
        /\ Len(self.optimizers) = 3
        /\ [i \in 1..3 |-> self.optimizers[i].name]
              = <<"optimizer_G_SFT", "optimizer_G_other", "optimizer_D">>
        /\ self.optimizers[1].params = named_parameters \cap SFTNamed
        /\ self.optimizers[2].params = named_parameters \ SFTNamed
        /\ \A k \in named_parameters :
              (k \in self.optimizers[1].params) # (k \in self.optimizers[2].params)
        /\ self.optimizers[1].lr = 5 * opt.lr_G
        /\ self.optimizers[2].lr = opt.lr_G
        /\ self.schedulers =
              Some(<< [type |-> "MultiStepLR", optimizer |-> "optimizer_G_SFT"],
                      [type |-> "MultiStepLR", optimizer |-> "optimizer_G_other"],
                      [type |-> "MultiStepLR", optimizer |-> "optimizer_D"] >>)

C6_Witness ==
    /\ phase = "initialized"
    /\ opt.is_train
    /\ named_parameters = ParamNames
    /\ opt.lr_G = 2
    /\ self.optimizers[1].lr = 10
    /\ Cardinality(self.optimizers[1].params) = 2
    /\ Cardinality(self.optimizers[2].params) = 2

\* C7: print_network leaves network.txt alone outside training mode; in
\* training mode the file afterwards holds the Generator section, then the
\* Discriminator section, then the Perceptual Network section iff
\* feature_weight > 0, and nothing of its earlier content.
C7_NetworkFile ==
    [][(phase = "new" /\ phase' = "initialized") =>
        network_txt' =
            IF opt.is_train
            THEN <<"Generator", "Discriminator">>
                 \o (IF opt.feature_weight > 0
                     THEN <<"Perceptual Network">> ELSE <<>>)
            ELSE network_txt]_vars

C7_Witness ==
    /\ phase = "initialized"
    /\ opt.is_train
    /\ opt.feature_weight > 0
    /\ network_txt = <<"Generator", "Discriminator", "Perceptual Network">>

\* C8: within a call optimizer_D.zero_grad() runs after the generator backward
\* and before the discriminator backward, so optimizer_D.step() consumes only
\* the gradient of this call's l_d_total; and the discriminator backward adds
\* nothing to the gradient of a generator parameter group.
C8_GradientIsolation ==
    nCalls > 0 =>
        /\ \A z \in At("optimizer_D.zero_grad") :
              /\ \A b \in At("l_g_total.backward") : b < z
              /\ \A b \in At("l_d_total.backward") : z < b
        /\ Count("optimizer_D.zero_grad") = 1
        /\ \A i \in At("optimizer_D.step") :
              events[i].grad = {<<"l_d_total", nCalls>>}
        /\ \A g \in {"G_SFT", "G_other"} :
              \A n \in 1..nCalls : <<"l_d_total", n>> \notin grads[g]

C8_Witness ==
    /\ nCalls > 1
    /\ opt.gan_type = "wgan-gp"
    /\ \E z \in At("optimizer_D.zero_grad") :
          events[z].grad = {<<"l_d_total", nCalls - 1>>, <<"l_g_total", nCalls>>}
    /\ grads["D"] = {<<"l_d_total", nCalls>>}
    /\ grads["G_SFT"] = {<<"l_g_total", nCalls>>}

\* C9: every optimizer_G_SFT.step() and optimizer_G_other.step() is preceded,
\* in the same call and after that optimizer's zero_grad(), by the backward
\* pass of the generator loss.
C9_GeneratorStepHasGradient ==
    nCalls > 0 =>
        \A o \in {"optimizer_G_SFT", "optimizer_G_other"} :
            \A i \in At(o \o ".step") :
                \E z \in At(o \o ".zero_grad") :
                    \E b \in At("l_g_total.backward") : z < b /\ b < i

LogKeysG == {"l_g_gan", "l_g_pix", "l_g_fea"}
LogKeysD == {"l_d_real", "l_d_fake", "l_d_cls_real", "l_d_cls_fake", "D_real", "D_fake"}
LogEnabled(k) ==
    \/ k = "l_g_gan"
    \/ k = "l_g_pix" /\ opt.pixel_weight > 0
    \/ k = "l_g_fea" /\ opt.feature_weight > 0

\* C10: a call writes 'l_g_gan' (and 'l_g_pix', 'l_g_fea' when enabled) iff the
\* generator gate holds in it and otherwise leaves those entries as they were;
\* it always writes the six discriminator entries; the generator
\* classification loss is never logged.
C10_LogFrame ==
    [][nCalls' = nCalls + 1 =>
        LET old == self.log_dict[1]
            new == self'.log_dict[1]
        IN  /\ \A k \in LogKeysG :
                 IF GeneratorDue(step') /\ LogEnabled(k)
                 THEN k \in DOMAIN new /\ new[k] = nCalls'
                 ELSE /\ (k \in DOMAIN new) <=> (k \in DOMAIN old)
                      /\ k \in DOMAIN old => new[k] = old[k]
            /\ \A k \in LogKeysD : k \in DOMAIN new /\ new[k] = nCalls'
            /\ "l_g_cls" \notin DOMAIN new]_vars

C10_Witness ==
    /\ nCalls > 2
    /\ ~GeneratorDue(step)
    /\ "l_g_gan" \in DOMAIN get_current_log
    /\ get_current_log["l_g_gan"] = nCalls - 1
    /\ get_current_log["l_d_real"] = nCalls
====
